---- MODULE Spec2Model ----
(***************************************************************************)
(* Model of the BitcoinWebapp ingestion job.                               *)
(*                                                                         *)
(*   src/Backend/scrape_logic_lambda.py  the hardened ("lambda") variant   *)
(*   src/Backend/scrape_logic.py         the basic variant                 *)
(*   src/Backend/app.py                  lambda_handler, the entry point   *)
(*                                                                         *)
(* Values                                                                  *)
(*   A string is a sequence of one-character strings, so that strip() and  *)
(*   lower() are computed and not assumed.                                 *)
(*   A wall-clock time is [date, sec]: an abstract calendar date and the   *)
(*   second of that day.  A pandas Timestamp is [date, sec, aware, off]:   *)
(*   aware tells whether it has a zone, off is the zone's offset in        *)
(*   seconds; NaT and None are separate values.                            *)
(*   A date-time text is a record [fmt, ...]: "iso" (the %Y-%m-%dT%H:%M:%S *)
(*   form, with or without an offset), "slash" (an ambiguous a/b date      *)
(*   whose reading depends on dayfirst) or "bad" (not a date).             *)
(*   A polarity is an integer number of 1/10000: 1000 stands for 0.1.      *)
(***************************************************************************)
EXTENDS Integers, Sequences, FiniteSets, TLC

VARIABLES
    variant,    \* "lambda" (scrape_logic_lambda.py) or "basic" (scrape_logic.py)
    dbTz,       \* the store session's time zone offset: TIMESTAMPTZ texts are read and printed in it
    articles,   \* the articles table: a sequence of rows in insertion (id) order
    value,      \* the value table: a set of candle rows, open_time is its primary key
    pc,         \* the control position of the running invocation
    df,         \* main()'s local df_articles: the batch the scraper returned
    last,       \* what the last routine call was given and what it did
    prev,       \* `last` of the insert_articles call before the last one
    trace,      \* the stage events of the running invocation of main(), in order
    response,   \* what lambda_handler returned, or NoResponse
    runs,       \* the number of calls/invocations made so far
    conns       \* the number of store connections the job holds open

vars == <<variant, dbTz, conns, articles, value, pc, df, last, prev, trace, response, runs>>

-----------------------------------------------------------------------------
(* Bounds of the model. *)

\* polarity scores range over -MaxPolarity..MaxPolarity (10000 stands for 1.0)
MaxPolarity == 10000

\* the longest listing page the scraper is given
MaxListing == 6

\* the longest batch of the two-call runs of insert_articles
MaxDf == 2

\* the longest batch of the one-call runs of insert_articles
MaxLongDf == 21

\* candles open at the seconds 0..MaxCandleTime
MaxCandleTime == 2

\* the longest array the market-data endpoint returns
MaxFetch == 2

\* the invocations of the entry point in one behaviour
MaxInvocations == 2

\* the longest href of a listing candidate
MaxHref == 5

\* the longest text of an author tag
MaxAuthor == 4

\* the dashboard's value tables hold up to MaxFew rows, or the 1000 of the
\* default window and up to MaxOver more
MaxFew == 3
MaxOver == 2

-----------------------------------------------------------------------------
(* Python values.  Every value that can stand where None can is a record  *)
(* with a field py, so that any two of them can be compared.               *)

None == [py |-> "None"]
NaT == [py |-> "NaT"]

Variants == {"lambda", "basic"}

\* pd.isnull
IsNull(x) == x.py = "None" \/ x.py = "NaT"

\* a str value: its characters
Str(chars) == [py |-> "str", s |-> chars]

\* Python truthiness of an Optional[str]: None and "" are falsy
Truthy(x) == x.py = "str" /\ Len(x.s) > 0

-----------------------------------------------------------------------------
(* str methods, over sequences of one-character strings. *)

UpperCase == <<"A", "B", "E", "J", "N", "R", "S", "T", "Y">>
LowerCase == <<"a", "b", "e", "j", "n", "r", "s", "t", "y">>

LowerChar(c) ==
    IF \E i \in 1..Len(UpperCase) : UpperCase[i] = c
    THEN LowerCase[CHOOSE i \in 1..Len(UpperCase) : UpperCase[i] = c]
    ELSE c

\* str.lower()
Lower(chars) == [i \in 1..Len(chars) |-> LowerChar(chars[i])]

IsSpace(c) == c = " "

RECURSIVE LStrip(_)
LStrip(chars) ==
    IF chars # <<>> /\ IsSpace(Head(chars)) THEN LStrip(Tail(chars)) ELSE chars

RECURSIVE RStrip(_)
RStrip(chars) ==
    IF chars # <<>> /\ IsSpace(chars[Len(chars)])
    THEN RStrip(SubSeq(chars, 1, Len(chars) - 1))
    ELSE chars

\* str.strip(); also what get_text(strip=True) does to the text of one tag
Strip(chars) == RStrip(LStrip(chars))

\* str.startswith(prefix)
StartsWith(chars, prefix) ==
    /\ Len(chars) >= Len(prefix)
    /\ SubSeq(chars, 1, Len(prefix)) = prefix

\* chars[n:]
DropFirst(chars, n) ==
    IF Len(chars) =< n THEN <<>> ELSE SubSeq(chars, n + 1, Len(chars))

-----------------------------------------------------------------------------
(* Dates and times.                                                        *)
(*                                                                         *)
(* A calendar date is <<month, day>>.  Offsets are whole seconds and the   *)
(* seconds of a day are not wrapped: the model's offsets never carry a     *)
(* time over midnight.                                                     *)

Timestamp(date, sec, aware, off) ==
    [py |-> "Timestamp", date |-> date, sec |-> sec, aware |-> aware, off |-> off]

\* the text "%Y-%m-%dT%H:%M:%S", followed by an offset when aware
IsoText(date, sec, aware, off) ==
    [py |-> "str", fmt |-> "iso", date |-> date, sec |-> sec, aware |-> aware, off |-> off]

\* the text "a/b/<year> <time>": day a of month b read day first, month a
\* day b read month first
SlashText(a, b, sec) == [py |-> "str", fmt |-> "slash", a |-> a, b |-> b, sec |-> sec]

\* a text that is no date; the empty text is EmptyText
BadText == [py |-> "str", fmt |-> "bad"]
EmptyText == [py |-> "str", fmt |-> "empty"]

\* pd.to_datetime(arg, errors="coerce", dayfirst=dayfirst) of a scalar
to_datetime(arg, dayfirst) ==
    IF arg.py = "None" THEN None
    ELSE IF arg.py = "NaT" THEN NaT
    ELSE IF arg.py = "Timestamp" THEN arg
    ELSE IF arg.fmt = "iso" THEN Timestamp(arg.date, arg.sec, arg.aware, arg.off)
    ELSE IF arg.fmt = "slash"
         THEN IF dayfirst THEN Timestamp(<<arg.b, arg.a>>, arg.sec, FALSE, 0)
                          ELSE Timestamp(<<arg.a, arg.b>>, arg.sec, FALSE, 0)
    ELSE NaT

\* Timestamp.tz_localize(None): the wall-clock time is kept, the zone dropped
tz_localize_none(ts) == Timestamp(ts.date, ts.sec, FALSE, 0)

\* Timestamp.strftime("%Y-%m-%dT%H:%M:%S"); NaT.strftime raises ValueError,
\* which is the value Raises here
Raises == [py |-> "raise"]

strftime(ts) ==
    IF ts.py = "NaT" \/ ts.py = "None" THEN Raises
    ELSE IsoText(ts.date, ts.sec, FALSE, 0)

\* Timestamp.strftime("%Y-%m-%dT%H:%M:%S%z")
strftime_z(ts) ==
    IF ts.py = "NaT" \/ ts.py = "None" THEN Raises
    ELSE IsoText(ts.date, ts.sec, ts.aware, ts.off)

\* What a TIMESTAMPTZ column keeps of a text written to it: the instant, as a
\* UTC wall-clock time.  A text without an offset is read in the session's
\* time zone tz.  None is stored as NULL.
StoreTimestamptz(text, tz) ==
    IF text.py = "None" THEN None
    ELSE [py |-> "instant", date |-> text.date,
          sec |-> text.sec - (IF text.aware THEN text.off ELSE tz)]

\* What a select returns for a TIMESTAMPTZ column: the instant printed in the
\* session's time zone, with its offset
SelectTimestamptz(stored, tz) ==
    IF stored.py = "None" THEN None
    ELSE IsoText(stored.date, stored.sec + tz, TRUE, tz)

-----------------------------------------------------------------------------
(* Sentiment: get_sentiment_label. *)

\* polarity > 0.1, in units of 1/10000
PosThreshold == 1000
\* polarity < -0.1, in units of 1/10000
NegThreshold == -1000

\* An article body is [py |-> "str", s |-> the characters, polarity |-> the
\* score TextBlob gives it]; TextBlob(text) raises TypeError for a value
\* that is not a str.
IsStr(text) == text.py = "str"

\* a str with the polarity the sentiment library scores it at
Text(chars, p) == [py |-> "str", s |-> chars, polarity |-> p]

\* TextBlob(text).sentiment.polarity
TextBlobPolarity(text) == text.polarity

LabelOfPolarityInclusive(polarity) ==
    IF polarity >= PosThreshold THEN "positive"
    ELSE IF polarity =< NegThreshold THEN "negative"
    ELSE "neutral"

LabelOfPolarity(polarity) ==
    IF polarity > PosThreshold THEN "positive"
    ELSE IF polarity < NegThreshold THEN "negative"
    ELSE "neutral"

get_sentiment_label(text) ==
    IF ~IsStr(text) THEN "unknown"
    ELSE LabelOfPolarity(TextBlobPolarity(text))

-----------------------------------------------------------------------------
(* The scraper: scrape_articles_requests (lambda), scrape_articles (basic). *)

\* the hardened loop reads articles[:5]
ArticleLimit == 5

NA == <<"N", "/", "A">>
HttpPrefix == <<"h", "t", "t", "p">>
Origin == <<"h", "t", "t", "p", "s", ":", "/", "/", "u", ".", "t", "o", "d", "a", "y">>
ByPrefix == <<"b", "y">>

\* A detail page, as its selectors see it: the text of the h1, of the date
\* div and of the author div (None where the tag is missing) and the joined
\* text of its <p dir="ltr"> paragraphs (None where there is none).
Page(h1, date, author, body) == [h1 |-> h1, date |-> date, author |-> author, body |-> body]

\* What requests.get gives: it raises, or it returns a status and a body.
RaisesResponse == [kind |-> "raise"]
HttpResponse(status, body) == [kind |-> "http", status |-> status, body |-> body]

\* A listing candidate (one div.news__item): the href of the <a> around its
\* title (None when the title div, the <a> or the href is missing) and what
\* the request for its detail page gives.
Candidate(href, resp) == [href |-> href, resp |-> resp]

\* a resolution that puts the origin before every href
ResolveLinkAlwaysOrigin(href) ==
    IF Truthy(href) THEN Str(Origin \o href.s) ELSE None

\* link = href if href and href.startswith("http")
\*        else f"https://u.today{href}" if href else None
ResolveLink(href) ==
    IF Truthy(href) /\ StartsWith(href.s, HttpPrefix) THEN href
    ELSE IF Truthy(href) THEN Str(Origin \o href.s)
    ELSE None

\* h1_tag.get_text(strip=True) if h1_tag else 'N/A'
ExtractTitle(page) ==
    IF page.h1.py = "None" THEN Str(NA) ELSE Str(Strip(page.h1.s))

\* raw_date is truthy unless the tag is missing or its text is empty
DateTruthy(raw_date) == raw_date.py = "str" /\ raw_date.fmt # "empty"

\* pd.to_datetime(raw_date, errors="coerce", dayfirst=True).strftime(...) if raw_date else None
ExtractDatetime(page) ==
    IF DateTruthy(page.date) THEN strftime(to_datetime(page.date, TRUE)) ELSE None

\* the author text, with a leading "by" cut off
ExtractAuthor(page) ==
    LET name == IF page.author.py = "None" THEN NA ELSE Strip(page.author.s)
    IN  IF StartsWith(Lower(name), ByPrefix) THEN Str(Strip(DropFirst(name, 2)))
        ELSE Str(name)

\* '\n'.join(...) if p_tags else 'N/A'
ExtractText(page) ==
    IF page.body.py = "None" THEN Text(NA, 0) ELSE page.body

\* One pass of the loop body for one candidate:
\*   kind "skip"   the candidate has no link, or its page is not a 200
\*   kind "error"  an exception, caught and logged by the loop's except
\*   kind "ok"     the record was appended
\* requested is the link the detail request was made for, or None.
ProcessCandidate(cand) ==
    LET link == ResolveLink(cand.href)
    IN  IF link.py = "None"
        THEN [kind |-> "skip", requested |-> None]
        ELSE IF cand.resp.kind = "raise"
        THEN [kind |-> "error", requested |-> link]
        ELSE IF cand.resp.status # 200
        THEN [kind |-> "skip", requested |-> link]
        ELSE LET page == cand.resp.body
                 article_datetime == ExtractDatetime(page)
                 article_text == ExtractText(page)
             IN  IF article_datetime.py = "raise"
                 THEN [kind |-> "error", requested |-> link]
                 ELSE [kind |-> "ok", requested |-> link,
                       article |-> [title |-> ExtractTitle(page),
                                    datetime |-> article_datetime,
                                    author |-> ExtractAuthor(page),
                                    link |-> link,
                                    content |-> article_text,
                                    sentiment |-> get_sentiment_label(article_text)]]

\* a loop whose except ends it: the first error drops the later candidates
RECURSIVE ScrapeLoopAborting(_)
ScrapeLoopAborting(cands) ==
    IF cands = <<>> THEN [results |-> <<>>, outcomes |-> <<>>]
    ELSE LET o == ProcessCandidate(Head(cands))
             rest == IF o.kind = "error" THEN [results |-> <<>>, outcomes |-> <<>>]
                     ELSE ScrapeLoopAborting(Tail(cands))
         IN  [results |-> (IF o.kind = "ok" THEN <<o.article>> ELSE <<>>) \o rest.results,
              outcomes |-> <<o>> \o rest.outcomes]

\* The loop over the candidates: results is what was appended, outcomes[i]
\* is what became of the i-th candidate the loop took.
RECURSIVE ScrapeLoop(_)
ScrapeLoop(cands) ==
    IF cands = <<>> THEN [results |-> <<>>, outcomes |-> <<>>]
    ELSE LET o == ProcessCandidate(Head(cands))
             rest == ScrapeLoop(Tail(cands))
         IN  [results |-> (IF o.kind = "ok" THEN <<o.article>> ELSE <<>>) \o rest.results,
              outcomes |-> <<o>> \o rest.outcomes]

\* articles[:n]
Take(seq, n) == IF Len(seq) =< n THEN seq ELSE SubSeq(seq, 1, n)

\* The candidates the loop iterates over.
LoopCandidates(v, cands) == IF v = "lambda" THEN Take(cands, ArticleLimit) ELSE cands

\* The scraper, given what the request for the listing page gives (a listing
\* body is the sequence of its candidates).  raised: the call ended in an
\* exception.  listed: the listing was read and the loop ran.
\*   lambda: the whole body is in a try whose except logs; a status other
\*           than 200 returns the empty batch.
\*   basic:  page.goto raising leaves the routine; the status is not read.
ScrapeArticles(v, listing) ==
    IF listing.kind = "raise"
    THEN [results |-> <<>>, outcomes |-> <<>>, listed |-> FALSE, raised |-> (v = "basic")]
    ELSE IF v = "lambda" /\ listing.status # 200
    THEN [results |-> <<>>, outcomes |-> <<>>, listed |-> FALSE, raised |-> FALSE]
    ELSE LET loop == ScrapeLoop(LoopCandidates(v, listing.body))
         IN  [results |-> loop.results, outcomes |-> loop.outcomes,
              listed |-> TRUE, raised |-> FALSE]

-----------------------------------------------------------------------------
(* The articles table and insert_articles. *)

\* the hardened routine inserts batch_size rows at a time
BatchSize == 10

\* The row the store keeps of an inserted record; the identity column id is
\* the row's position in the table.
StoreArticle(a, tz) ==
    [title |-> a.title, link |-> a.link, author |-> a.author,
     datetime |-> StoreTimestamptz(a.datetime, tz),
     content |-> a.content, sentiment |-> a.sentiment]

\* an insert that replaces the table's rows by the new ones
InsertArticleRowsReplacing(stored, rows, tz) ==
    [i \in 1..Len(rows) |-> StoreArticle(rows[i], tz)]

\* supabase.table("articles").insert(rows).execute(), when it succeeds
InsertArticleRows(stored, rows, tz) ==
    stored \o [i \in 1..Len(rows) |-> StoreArticle(rows[i], tz)]

\* norm_title: t.strip().lower()
norm_title(t) == IF t.py = "str" THEN Str(Lower(Strip(t.s))) ELSE t

\* norm_dt: parse (month first, then day first), drop the zone, format to
\* the second; None when the value is no date
norm_dt(dt) ==
    LET first == to_datetime(dt, FALSE)
        ts == IF IsNull(first) THEN to_datetime(dt, TRUE) ELSE first
    IN  IF ~IsNull(ts) THEN strftime(tz_localize_none(ts)) ELSE None

\* the (title_norm, datetime_norm) pair of a scraped record
ArticleKey(a) == <<norm_title(a.title), norm_dt(a.datetime)>>

\* the set `existing`: the normalized pairs of the rows select("title",
\* "datetime") returns
ExistingKeys(stored, tz) ==
    {<<norm_title(stored[i].title), norm_dt(SelectTimestamptz(stored[i].datetime, tz))>> :
        i \in 1..Len(stored)}

\* a filter that compares the incoming pair with the stored rows' raw values
NewArticlesRawCompare(existing, batch) ==
    SelectSeq(batch, LAMBDA a : <<a.title, a.datetime>> \notin existing)

\* df_articles_new: the records whose pair is not in `existing`
NewArticles(existing, batch) ==
    SelectSeq(batch, LAMBDA a : ArticleKey(a) \notin existing)

\* the clean-up of each record's datetime before the insert
CleanDatetime(a) ==
    LET ts == to_datetime(a.datetime, FALSE)
    IN  [a EXCEPT !.datetime = IF ~IsNull(ts) THEN strftime(ts) ELSE None]

ArticlesList(new) == [i \in 1..Len(new) |-> CleanDatetime(new[i])]

\* the number of passes of `for i in range(0, len(articles_list), batch_size)`
NumBatches(n) == (n + BatchSize - 1) \div BatchSize

\* articles_list[i:i+batch_size] of the k-th pass (k from 1)
BatchOf(list, k) ==
    SubSeq(list, (k - 1) * BatchSize + 1,
           IF k * BatchSize < Len(list) THEN k * BatchSize ELSE Len(list))

\* a loop that a failed batch ends
RECURSIVE BatchLoopAborting(_, _, _, _, _)
BatchLoopAborting(stored, list, k, failing, tz) ==
    IF k > NumBatches(Len(list))
    THEN [articles |-> stored, total |-> 0, attempts |-> <<>>]
    ELSE IF k \in failing
    THEN [articles |-> stored, total |-> 0,
          attempts |-> <<[rows |-> BatchOf(list, k), ok |-> FALSE, pass |-> k]>>]
    ELSE LET batch == BatchOf(list, k)
             rest == BatchLoopAborting(InsertArticleRows(stored, batch, tz), list, k + 1, failing, tz)
         IN  [articles |-> rest.articles, total |-> Len(batch) + rest.total,
              attempts |-> <<[rows |-> batch, ok |-> TRUE, pass |-> k]>> \o rest.attempts]

\* a loop that submits a rejected batch a second time before it goes on
RECURSIVE BatchLoopRetrying(_, _, _, _, _)
BatchLoopRetrying(stored, list, k, failing, tz) ==
    IF k > NumBatches(Len(list))
    THEN [articles |-> stored, total |-> 0, attempts |-> <<>>]
    ELSE LET batch == BatchOf(list, k)
             ok == k \notin failing
             rest == BatchLoopRetrying(IF ok THEN InsertArticleRows(stored, batch, tz) ELSE stored,
                                       list, k + 1, failing, tz)
             try == [rows |-> batch, ok |-> ok, pass |-> k]
         IN  [articles |-> rest.articles,
              total |-> (IF ok THEN Len(batch) ELSE 0) + rest.total,
              attempts |-> (IF ok THEN <<try>> ELSE <<try, try>>) \o rest.attempts]

\* The batch loop from its k-th pass on; the store rejects the inserts of the
\* passes in `failing`.  total is total_inserted, attempts the inserts made
\* (pass is the number of the pass that made the insert).
RECURSIVE BatchLoop(_, _, _, _, _)
BatchLoop(stored, list, k, failing, tz) ==
    IF k > NumBatches(Len(list))
    THEN [articles |-> stored, total |-> 0, attempts |-> <<>>]
    ELSE LET batch == BatchOf(list, k)
             ok == k \notin failing
             rest == BatchLoop(IF ok THEN InsertArticleRows(stored, batch, tz) ELSE stored,
                               list, k + 1, failing, tz)
         IN  [articles |-> rest.articles,
              total |-> (IF ok THEN Len(batch) ELSE 0) + rest.total,
              attempts |-> <<[rows |-> batch, ok |-> ok, pass |-> k]>> \o rest.attempts]

NothingReported == 0 - 1

\* what a call of insert_articles that wrote nothing leaves
NoInsert(stored, raised, selected) ==
    [articles |-> stored, raised |-> raised, selected |-> selected,
     reported |-> NothingReported, attempts |-> <<>>]

\* a routine whose except logs the failure and raises it again
InsertArticlesLambdaRaising(stored, batch, selectOk, failing, tz) ==
    IF batch = <<>> THEN NoInsert(stored, FALSE, FALSE)
    ELSE IF ~selectOk THEN NoInsert(stored, TRUE, TRUE)
    ELSE LET new == NewArticles(ExistingKeys(stored, tz), batch)
         IN  IF new = <<>> THEN NoInsert(stored, FALSE, TRUE)
             ELSE LET loop == BatchLoop(stored, ArticlesList(new), 1, failing, tz)
                  IN  [articles |-> loop.articles,
                       raised |-> (\E k \in 1..Len(loop.attempts) : ~loop.attempts[k].ok),
                       selected |-> TRUE,
                       reported |-> loop.total, attempts |-> loop.attempts]

\* insert_articles(df_articles) of the hardened variant.  selectOk: the select
\* of the stored rows succeeds; failing: the passes whose insert the store
\* rejects.  Every exception is caught by the routine's own except.
InsertArticlesLambda(stored, batch, selectOk, failing, tz) ==
    IF batch = <<>> THEN NoInsert(stored, FALSE, FALSE)
    ELSE IF ~selectOk THEN NoInsert(stored, FALSE, TRUE)
    ELSE LET new == NewArticles(ExistingKeys(stored, tz), batch)
         IN  IF new = <<>> THEN NoInsert(stored, FALSE, TRUE)
             ELSE LET loop == BatchLoop(stored, ArticlesList(new), 1, failing, tz)
                  IN  [articles |-> loop.articles, raised |-> FALSE, selected |-> TRUE,
                       reported |-> loop.total, attempts |-> loop.attempts]

\* insert_articles(df_articles) of the basic variant: nothing is caught.  The
\* select comes first; a batch of no records has no "title" column, and
\* df_articles["title"] raises KeyError; the new records go in one insert.
InsertArticlesBasic(stored, batch, selectOk, failing, tz) ==
    IF ~selectOk THEN NoInsert(stored, TRUE, TRUE)
    ELSE IF batch = <<>> THEN NoInsert(stored, TRUE, TRUE)
    ELSE LET list == ArticlesList(NewArticles(ExistingKeys(stored, tz), batch))
         IN  IF list = <<>> THEN NoInsert(stored, FALSE, TRUE)
             ELSE IF 1 \in failing
             THEN [articles |-> stored, raised |-> TRUE, selected |-> TRUE,
                   reported |-> NothingReported,
                   attempts |-> <<[rows |-> list, ok |-> FALSE, pass |-> 1]>>]
             ELSE [articles |-> InsertArticleRows(stored, list, tz), raised |-> FALSE,
                   selected |-> TRUE, reported |-> Len(list),
                   attempts |-> <<[rows |-> list, ok |-> TRUE, pass |-> 1]>>]

insert_articles(v, stored, batch, selectOk, failing, tz) ==
    IF v = "lambda" THEN InsertArticlesLambda(stored, batch, selectOk, failing, tz)
    ELSE InsertArticlesBasic(stored, batch, selectOk, failing, tz)

\* The store outcomes a call can meet: the select fails (no pass is reached),
\* or any set of the passes the call would make is rejected.
InsertPasses(v, stored, batch, tz) ==
    IF batch = <<>> THEN 0
    ELSE LET n == Len(NewArticles(ExistingKeys(stored, tz), batch))
         IN  IF v = "lambda" THEN NumBatches(n) ELSE IF n > 0 THEN 1 ELSE 0

-----------------------------------------------------------------------------
(* The value table and insert_binance_data. *)

\* int(ts.timestamp() * 1000), unit="ms": milliseconds in a second
MsPerSec == 1000

\* the calendar date of every candle of the model
CandleDate == <<1, 1>>

\* One element of the upstream array: open_time in epoch milliseconds (a
\* whole number of seconds: candles open on interval boundaries) and the
\* rest of the row, which close stands for.
Kline(ms, close) == [open_time |-> ms, close |-> close]

\* pd.to_datetime(ms, unit="ms", utc=True)
to_datetime_ms(ms) == Timestamp(CandleDate, ms \div MsPerSec, TRUE, 0)

\* pd.to_datetime(text, utc=True): the instant, in UTC
to_datetime_utc(text) ==
    Timestamp(text.date, IF text.aware THEN text.sec - text.off ELSE text.sec, TRUE, 0)

\* int(ts.timestamp() * 1000) of a UTC timestamp
TimestampMs(ts) == ts.sec * MsPerSec

\* the stored row of a formatted record
StoreCandle(rec, tz) ==
    [open_time |-> StoreTimestamptz(rec.open_time, tz), close |-> rec.close]

\* the rows a list of records becomes
StoredCandles(list, tz) == {StoreCandle(list[i], tz) : i \in 1..Len(list)}

\* the open_times of the table's rows
OpenTimes(stored) == {r.open_time : r \in stored}

\* The primary key lets an insert through when no two of its rows share an
\* open_time and none of them is stored already; the insert is one
\* statement, so a rejected insert writes nothing.
KeyAccepts(stored, list, tz) ==
    /\ \A i, j \in 1..Len(list) :
          StoreCandle(list[i], tz).open_time = StoreCandle(list[j], tz).open_time => i = j
    /\ \A i \in 1..Len(list) : StoreCandle(list[i], tz).open_time \notin OpenTimes(stored)

\* select("open_time").order("open_time", desc=True).limit(1): the text of
\* the greatest stored open_time, None for an empty table
LatestOpenTime(stored, tz) ==
    IF stored = {} THEN None
    ELSE LET top == CHOOSE r \in stored : \A q \in stored : q.open_time.sec =< r.open_time.sec
         IN  SelectTimestamptz(top.open_time, tz)

\* The body of the upstream response: the array of candles, a JSON error
\* object, or a text that is no JSON.
JsonArray(rows) == [json |-> "array", rows |-> rows]
JsonError == [json |-> "error"]
NotJson == [json |-> "none"]

\* pd.DataFrame(resp.json(), columns=columns) with open_time as a UTC
\* timestamp; an error object has none of the columns and gives no rows
KlineFrame(body) ==
    IF body.json = "array"
    THEN [i \in 1..Len(body.rows) |-> [open_time |-> to_datetime_ms(body.rows[i].open_time),
                                       close |-> body.rows[i].close]]
    ELSE <<>>

\* the records to insert: open_time formatted with its offset
FormatCandles(frame) ==
    [i \in 1..Len(frame) |-> [open_time |-> strftime_z(frame[i].open_time),
                              close |-> frame[i].close]]

\* what a call of insert_binance_data that wrote nothing leaves
NoCandles(stored, raised, params) ==
    [value |-> stored, raised |-> raised, params |-> params, submitted |-> <<>>,
     inserted |-> FALSE]

\* params: {"startTime": ms} when a row is stored, {} (None here) otherwise
StartTime(latest) ==
    IF latest.py = "None" THEN None
    ELSE [py |-> "int", ms |-> TimestampMs(to_datetime_utc(latest))]

\* a filter that keeps the boundary row: >= instead of >
NewCandlesInclusive(frame, latest) ==
    IF latest.py = "None" THEN frame
    ELSE SelectSeq(frame, LAMBDA c : c.open_time.sec >= to_datetime_utc(latest).sec)

\* df_new: the fetched rows strictly after the latest stored open_time
NewCandles(frame, latest) ==
    IF latest.py = "None" THEN frame
    ELSE SelectSeq(frame, LAMBDA c : c.open_time.sec > to_datetime_utc(latest).sec)

\* the end of both variants: the one insert of the formatted records
SubmitCandles(v, stored, new, insertOk, params, tz) ==
    LET list == FormatCandles(new)
        ok == insertOk /\ KeyAccepts(stored, list, tz)
    IN  [value |-> IF ok THEN stored \cup StoredCandles(list, tz) ELSE stored,
         raised |-> (~ok /\ v = "basic"), params |-> params, submitted |-> list,
         inserted |-> ok]

\* insert_binance_data() of the hardened variant.  selectOk: the select of
\* the latest row succeeds; resp: what the request gives; insertOk: the store
\* is reachable for the insert.  Every exception is caught by the routine.
InsertBinanceLambda(stored, selectOk, resp, insertOk, tz) ==
    IF ~selectOk THEN NoCandles(stored, FALSE, None)
    ELSE LET latest == LatestOpenTime(stored, tz)
             params == StartTime(latest)
         IN  IF resp.kind = "raise" THEN NoCandles(stored, FALSE, params)
             ELSE IF resp.status # 200 THEN NoCandles(stored, FALSE, params)
             ELSE IF resp.body.json = "none" THEN NoCandles(stored, FALSE, params)
             ELSE LET new == NewCandles(KlineFrame(resp.body), latest)
                  IN  IF new = <<>> THEN NoCandles(stored, FALSE, params)
                      ELSE SubmitCandles("lambda", stored, new, insertOk, params, tz)


\* insert_binance_data() of the basic variant: nothing is caught and the
\* status is not read.  resp.json() raises on a body that is no JSON; a JSON
\* error object gives a frame of no rows.  The fetched rows are filtered
\* against every stored open_time.
InsertBinanceBasic(stored, selectOk, resp, insertOk, tz) ==
    IF ~selectOk THEN NoCandles(stored, TRUE, None)
    ELSE LET latest == LatestOpenTime(stored, tz)
             params == StartTime(latest)
         IN  IF resp.kind = "raise" THEN NoCandles(stored, TRUE, params)
             ELSE IF resp.body.json = "none" THEN NoCandles(stored, TRUE, params)
             ELSE LET frame == KlineFrame(resp.body)
                      existing == {to_datetime_utc(SelectTimestamptz(t, tz)).sec :
                                      t \in OpenTimes(stored)}
                      new == SelectSeq(frame, LAMBDA c : c.open_time.sec \notin existing)
                  IN  IF new = <<>> THEN NoCandles(stored, FALSE, params)
                      ELSE SubmitCandles("basic", stored, new, insertOk, params, tz)

insert_binance_data(v, stored, selectOk, resp, insertOk, tz) ==
    IF v = "lambda" THEN InsertBinanceLambda(stored, selectOk, resp, insertOk, tz)
    ELSE InsertBinanceBasic(stored, selectOk, resp, insertOk, tz)

-----------------------------------------------------------------------------
(* Table provisioning, main() and lambda_handler. *)

\* create_tables_if_not_exists(): failedAt is "none" or the call that raised
\* ("connect", "execute", "commit").  The except logs the error; nothing
\* leaves the routine.  opened: psycopg2.connect returned a connection.
\* closed: the routine closed it.  Leaving `with psycopg2.connect(...) as
\* conn` commits or rolls back the transaction and leaves the connection
\* open, and the routine has no conn.close().
ProvisionOutcomes == {"none", "connect", "execute", "commit"}

create_tables_if_not_exists(failedAt) ==
    [failed |-> failedAt # "none", logged |-> failedAt # "none", raised |-> FALSE,
     opened |-> failedAt # "connect", closed |-> FALSE]

\* the stages of main(), in the order of its statements
Stages == <<"provision", "scrape", "insert", "binance">>

\* a main() that fetches the market data before the articles
MainAfterSwapped(stage, raised) ==
    IF raised THEN "raised"
    ELSE CASE stage = "enter" -> "provision"
           [] stage = "provision" -> "binance"
           [] stage = "binance" -> "scrape"
           [] stage = "scrape" -> "insert"
           [] stage = "insert" -> "exit"
           [] stage = "exit" -> "returned"

\* main(): where control goes after a statement; an exception that leaves a
\* statement leaves main().
MainAfter(stage, raised) ==
    IF raised THEN "raised"
    ELSE CASE stage = "enter" -> "provision"
           [] stage = "provision" -> "scrape"
           [] stage = "scrape" -> "insert"
           [] stage = "insert" -> "binance"
           [] stage = "binance" -> "exit"
           [] stage = "exit" -> "returned"

NoResponse == [kind |-> "none"]

\* an except branch that reports success
HandlerResultAlwaysOk(raised, exc) ==
    [kind |-> "http", statusCode |-> 200, body |-> [text |-> "succeeded", exc |-> "none"]]

\* lambda_handler: what it returns when main() returned, and when main()
\* raised the exception whose str() is exc
HandlerResult(raised, exc) ==
    IF raised
    THEN [kind |-> "http", statusCode |-> 500, body |-> [text |-> "error", exc |-> exc]]
    ELSE [kind |-> "http", statusCode |-> 200, body |-> [text |-> "succeeded", exc |-> "none"]]

\* what the caller of the basic main() gets: nothing, or the exception
DirectResult(raised, exc) ==
    IF raised THEN [kind |-> "raised", exc |-> exc] ELSE [kind |-> "completed"]

-----------------------------------------------------------------------------
(* The inputs of the model. *)

SeqsUpTo(S, n) == UNION {[1..k -> S] : k \in 0..n}

NoCall == [op |-> "none"]

\* Detail pages.  PageFull has every tag; PageBadDate has no h1 and a date
\* text that is no date; PageNoDate has no date div and no paragraphs and a
\* title that differs from PageFull's in case only; PageEmptyDate has a date
\* div without text and no author div.
PageFull ==
    Page(Str(<<"B", "T", "C">>), SlashText(1, 2, 10), Str(<<"B", "y", " ", "J">>),
         Text(<<"u", "p">>, 5000))
PageBadDate ==
    Page(None, BadText, Str(<<"J">>), Text(<<"d", "n">>, 0 - 5000))
PageNoDate ==
    Page(Str(<<" ", "b", "t", "c">>), None, Str(<<"B", "y", "r">>), None)
PageEmptyDate ==
    Page(Str(<<"E", "T", "F">>), EmptyText, None, Text(<<"s", "o">>, 1000))

CandRel == Candidate(Str(<<"/", "n">>), HttpResponse(200, PageFull))
CandAbs == Candidate(Str(<<"h", "t", "t", "p", ":", "x">>), HttpResponse(200, PageBadDate))
CandNoDate == Candidate(Str(<<"/", "m">>), HttpResponse(200, PageNoDate))
CandEmptyDate == Candidate(Str(<<"/", "e">>), HttpResponse(200, PageEmptyDate))
CandNotFound == Candidate(Str(<<"/", "g">>), HttpResponse(404, PageFull))
CandNoHref == Candidate(None, RaisesResponse)
CandRaises == Candidate(Str(<<"/", "r">>), RaisesResponse)

\* the candidates of the scraper's own runs: one of each outcome of a pass
ScrapeCandidates == {CandRel, CandAbs, CandNotFound, CandNoHref, CandRaises}

\* what the request for the listing page can give
ScrapeListings ==
    {RaisesResponse, HttpResponse(503, <<>>)}
        \cup {HttpResponse(200, l) : l \in SeqsUpTo(ScrapeCandidates, MaxListing)}

\* the texts get_sentiment_label is given: a str of every polarity, the
\* empty str and the sentinel 'N/A' (no word of either is in the sentiment
\* lexicon, so both score 0.0), and a value that is no str
SentimentTexts ==
    {Text(<<"t">>, p) : p \in (0 - MaxPolarity)..MaxPolarity}
        \cup {Text(<<>>, 0), Text(NA, 0), None}

-----------------------------------------------------------------------------
(* get_sentiment_label on its own: one call on one text. *)

InitSentiment ==
    /\ variant \in Variants
    /\ dbTz = 0
    /\ articles = <<>>
    /\ value = {}
    /\ pc = "call"
    /\ df = <<>>
    /\ last \in {[op |-> "text", text |-> t] : t \in SentimentTexts}
    /\ prev = NoCall
    /\ trace = <<>>
    /\ response = NoResponse
    /\ runs = 0
    /\ conns = 0

CallSentimentLabel ==
    /\ pc = "call"
    /\ last.op = "text"
    /\ last' = [op |-> "get_sentiment_label", text |-> last.text,
                label |-> get_sentiment_label(last.text)]
    /\ pc' = "returned"
    /\ runs' = runs + 1
    /\ UNCHANGED <<variant, dbTz, conns, articles, value, df, prev, trace, response>>

NextSentiment == CallSentimentLabel

SpecSentiment == InitSentiment /\ [][NextSentiment]_vars

-----------------------------------------------------------------------------
(* The scraper on its own: one call on one listing. *)

InitScrape ==
    /\ variant \in Variants
    /\ dbTz = 0
    /\ articles = <<>>
    /\ value = {}
    /\ pc = "call"
    /\ df = <<>>
    /\ last \in {[op |-> "listing", listing |-> l] : l \in ScrapeListings}
    /\ prev = NoCall
    /\ trace = <<>>
    /\ response = NoResponse
    /\ runs = 0
    /\ conns = 0

CallScrape ==
    /\ pc = "call"
    /\ last.op = "listing"
    /\ LET res == ScrapeArticles(variant, last.listing)
       IN  /\ df' = res.results
           /\ last' = [op |-> "scrape", listing |-> last.listing, res |-> res]
           /\ pc' = IF res.raised THEN "raised" ELSE "returned"
    /\ runs' = runs + 1
    /\ UNCHANGED <<variant, dbTz, conns, articles, value, prev, trace, response>>

NextScrape == CallScrape

SpecScrape == InitScrape /\ [][NextScrape]_vars

-----------------------------------------------------------------------------
(* insert_articles on its own. *)

\* the session time zones of the store: UTC, and one hour east
DbTimeZones == {0, 3600}

PageLower ==
    Page(Str(<<"b", "t", "c", " ">>), SlashText(1, 2, 10), None, Text(<<"u", "p">>, 5000))
CandLower == Candidate(Str(<<"/", "l">>), HttpResponse(200, PageLower))

\* Scraped records, as the scraper makes them.  ArtFull and ArtLower have the
\* same normalized pair and differ in the title's case; ArtNoDate has the
\* title of ArtLower and no datetime.
ArtFull == ProcessCandidate(CandRel).article
ArtLower == ProcessCandidate(CandLower).article
ArtNoDate == ProcessCandidate(CandNoDate).article

ShortBatches == SeqsUpTo({ArtFull, ArtLower, ArtNoDate}, MaxDf)

\* the k-th of a run of records with titles "00", "01", ...
Digits == <<"0", "1", "2", "3", "4", "5", "6", "7", "8", "9">>
ArtNumbered(k) ==
    [ArtFull EXCEPT !.title = Str(<<Digits[(k \div 10) + 1], Digits[(k % 10) + 1]>>)]

LongBatches == {[k \in 1..n |-> ArtNumbered(k)] : n \in 0..MaxLongDf}

\* The tables a call can find: empty, or what an earlier call left.
StoredSeeds(tz) ==
    {InsertArticleRows(<<>>, b, tz) : b \in {<<>>, <<ArtFull>>, <<ArtNoDate, ArtNumbered(1)>>}}

\* no store operation of the call failed
CleanCall(selectOk, failing) == selectOk /\ failing = {}

\* One call of insert_articles on a batch of `batches` (or, in a second call,
\* on the batch of the first), under every outcome of the store.
CallInsertArticles(batches, from, to) ==
    /\ pc = from
    /\ \E b \in batches \cup (IF last.op = "insert_articles" THEN {last.batch} ELSE {}),
          selectOk \in BOOLEAN :
          \E failing \in (IF selectOk THEN SUBSET (1..InsertPasses(variant, articles, b, dbTz))
                                      ELSE {{}}) :
             LET res == insert_articles(variant, articles, b, selectOk, failing, dbTz)
             IN  /\ articles' = res.articles
                 /\ df' = b
                 /\ last' = [op |-> "insert_articles", batch |-> b, before |-> articles,
                             selectOk |-> selectOk, failing |-> failing, res |-> res]
                 /\ prev' = IF last.op = "insert_articles"
                            THEN [op |-> "insert_articles", batch |-> last.batch,
                                  before |-> last.before,
                                  clean |-> CleanCall(last.selectOk, last.failing)]
                            ELSE NoCall
    /\ pc' = to
    /\ runs' = runs + 1
    /\ UNCHANGED <<variant, dbTz, conns, value, trace, response>>

InitInsert ==
    /\ variant \in Variants
    /\ dbTz \in DbTimeZones
    /\ articles \in StoredSeeds(dbTz)
    /\ value = {}
    /\ pc = "first"
    /\ df = <<>>
    /\ last = NoCall
    /\ prev = NoCall
    /\ trace = <<>>
    /\ response = NoResponse
    /\ runs = 0
    /\ conns = 0

FirstInsert == CallInsertArticles(ShortBatches, "first", "second")
SecondInsert == CallInsertArticles(ShortBatches, "second", "done")

NextInsert == FirstInsert \/ SecondInsert

\* two calls of insert_articles in succession, on short batches
SpecInsert == InitInsert /\ [][NextInsert]_vars

LongInsert == CallInsertArticles(LongBatches, "first", "done")

NextBatch == LongInsert

\* one call of insert_articles, on batches of up to MaxLongDf records
SpecBatch == InitInsert /\ [][NextBatch]_vars

-----------------------------------------------------------------------------
(* insert_binance_data on its own. *)

Closes == {1, 2}

Klines == {Kline(t * MsPerSec, c) : t \in 0..MaxCandleTime, c \in Closes}

\* what the request to the endpoint can give
BinanceResponses ==
    {RaisesResponse, HttpResponse(503, JsonError), HttpResponse(503, NotJson)}
        \cup {HttpResponse(200, JsonArray(a)) : a \in SeqsUpTo(Klines, MaxFetch)}

\* The value tables a call can find: one row for each of any set of open
\* times, which is what a call on the empty table stores of such an array.
ValueSeeds(tz) ==
    {StoredCandles(FormatCandles(KlineFrame(JsonArray(a))), tz) :
        a \in {a \in SeqsUpTo(Klines, MaxCandleTime + 1) :
                  \A i, j \in 1..Len(a) : i < j => a[i].open_time < a[j].open_time}}

\* no request was made: the call ended before it
NotRequested == [kind |-> "none"]

\* One call of insert_binance_data under every outcome of the store and of
\* the request (which is made only when the select of the latest row
\* succeeded).
CallInsertBinance(responses, from, to) ==
    /\ pc = from
    /\ \E selectOk \in BOOLEAN, insertOk \in BOOLEAN :
          \E resp \in (IF selectOk THEN responses ELSE {NotRequested}) :
             LET res == insert_binance_data(variant, value, selectOk, resp, insertOk, dbTz)
             IN  /\ value' = res.value
                 /\ last' = [op |-> "insert_binance_data", before |-> value, resp |-> resp,
                             selectOk |-> selectOk, insertOk |-> insertOk, res |-> res]
    /\ pc' = to
    /\ runs' = runs + 1
    /\ UNCHANGED <<variant, dbTz, conns, articles, df, prev, trace, response>>

InitBinance ==
    /\ variant \in Variants
    /\ dbTz \in DbTimeZones
    /\ articles = <<>>
    /\ value \in ValueSeeds(dbTz)
    /\ pc = "first"
    /\ df = <<>>
    /\ last = NoCall
    /\ prev = NoCall
    /\ trace = <<>>
    /\ response = NoResponse
    /\ runs = 0
    /\ conns = 0

FetchAndInsert == CallInsertBinance(BinanceResponses, "first", "done")

NextBinance == FetchAndInsert

\* one call of insert_binance_data on a stored table
SpecBinance == InitBinance /\ [][NextBinance]_vars

-----------------------------------------------------------------------------
(* The job: invocations of the entry point, one after the other.           *)
(*                                                                         *)
(* The hardened main() runs under lambda_handler; the basic main() is      *)
(* called directly.  Each statement of main() is one step.  print() in the *)
(* hardened main() writes to the console and raises when the write fails;  *)
(* these are the only statements of the hardened main() outside a try.     *)

PipelineListings ==
    {RaisesResponse, HttpResponse(503, <<>>), HttpResponse(200, <<>>),
     HttpResponse(200, <<CandRel>>), HttpResponse(200, <<CandRaises, CandRel>>),
     HttpResponse(200, <<CandAbs, CandNoDate, CandEmptyDate>>)}

PipelineKlines ==
    {RaisesResponse, HttpResponse(503, NotJson), HttpResponse(200, JsonArray(<<>>)),
     HttpResponse(200, JsonArray(<<Kline(0, 1)>>)),
     HttpResponse(200, JsonArray(<<Kline(0, 2), Kline(MsPerSec, 1)>>))}

\* One attempt of a unit of work of an invocation: the request for the
\* listing page, for the detail page of the n-th candidate or for the market
\* data, the insert of the n-th article batch or of the candles.
Unit(kind, n, ok) == [kind |-> kind, n |-> n, ok |-> ok]

\* the requests a call of the scraper made, in order
ScrapeUnits(v, listing, res) ==
    LET cands == IF res.listed THEN LoopCandidates(v, listing.body) ELSE <<>>
        asked == SelectSeq([i \in 1..Len(res.outcomes) |-> i],
                           LAMBDA i : res.outcomes[i].requested.py # "None")
    IN  <<Unit("listing", 0, res.listed)>>
            \o [j \in 1..Len(asked) |->
                   Unit("detail", asked[j],
                        cands[asked[j]].resp.kind = "http" /\ cands[asked[j]].resp.status = 200)]

\* the inserts a call of insert_articles made, in order
InsertUnits(res) ==
    [i \in 1..Len(res.attempts) |-> Unit("batch", res.attempts[i].pass, res.attempts[i].ok)]

\* the request and the insert a call of insert_binance_data made
BinanceUnits(resp, res) ==
    (IF resp.kind = "none" THEN <<>>
     ELSE <<Unit("klines", 0, resp.kind = "http" /\ resp.status = 200)>>)
        \o (IF res.submitted = <<>> THEN <<>> ELSE <<Unit("candles", 0, res.inserted)>>)

\* str() of the exception a failed console write raises
PrintError == "console write failed"

\* what a statement of main() leaves in `last`
Statement(op, raised, exc, wrote) ==
    [op |-> op, raised |-> raised, exc |-> IF raised THEN exc ELSE "none", wrote |-> wrote]

Init ==
    /\ variant \in Variants
    /\ dbTz \in DbTimeZones
    /\ articles = <<>>
    /\ value = {}
    /\ pc = "idle"
    /\ df = <<>>
    /\ last = NoCall
    /\ prev = NoCall
    /\ trace = <<>>
    /\ response = NoResponse
    /\ runs = 0
    /\ conns = 0

\* the scheduled trigger calls lambda_handler (the caller calls main())
Invoke ==
    /\ pc = "idle"
    /\ runs < MaxInvocations
    /\ pc' = "enter"
    /\ runs' = runs + 1
    /\ trace' = <<>>
    /\ response' = NoResponse
    /\ df' = <<>>
    /\ last' = NoCall
    /\ UNCHANGED <<variant, dbTz, conns, articles, value, prev>>

\* print("Starting Lambda scraping function...")
MainEnter ==
    /\ pc = "enter"
    /\ \E printOk \in (IF variant = "lambda" THEN BOOLEAN ELSE {TRUE}) :
          /\ pc' = MainAfter("enter", ~printOk)
          /\ last' = Statement("enter", ~printOk, PrintError, 0)
    /\ UNCHANGED <<variant, dbTz, conns, articles, value, df, prev, trace, response, runs>>

\* create_tables_if_not_exists().  A connection the routine leaves open is
\* closed when the interpreter finalizes the object, which may be at the
\* return (finalized) or not.
Provision ==
    /\ pc = "provision"
    /\ \E failedAt \in ProvisionOutcomes, finalized \in BOOLEAN :
          LET res == create_tables_if_not_exists(failedAt)
          IN  /\ res.opened \/ ~finalized
              /\ conns' = IF res.opened /\ ~res.closed /\ ~finalized THEN conns + 1 ELSE conns
              /\ pc' = MainAfter("provision", res.raised)
              /\ last' = Statement("provision", res.raised, failedAt, 0)
              /\ trace' = Append(trace, [stage |-> "provision", failed |-> res.failed,
                                         logged |-> res.logged, units |-> <<>>])
    /\ UNCHANGED <<variant, dbTz, articles, value, df, prev, response, runs>>

\* df_articles = scrape_articles_requests()
ScrapeStage ==
    /\ pc = "scrape"
    /\ \E listing \in PipelineListings :
          LET res == ScrapeArticles(variant, listing)
          IN  /\ df' = res.results
              /\ pc' = MainAfter("scrape", res.raised)
              /\ last' = Statement("scrape", res.raised, "listing request failed", 0)
              /\ trace' = Append(trace,
                    [stage |-> "scrape",
                     failed |-> (~res.listed \/ \E i \in 1..Len(res.outcomes) :
                                                   res.outcomes[i].kind = "error"),
                     logged |-> FALSE,
                     units |-> ScrapeUnits(variant, listing, res)])
    /\ UNCHANGED <<variant, dbTz, conns, articles, value, prev, response, runs>>

\* insert_articles(df_articles)
InsertStage ==
    /\ pc = "insert"
    /\ \E selectOk \in BOOLEAN :
          \E failing \in (IF selectOk THEN SUBSET (1..InsertPasses(variant, articles, df, dbTz))
                                      ELSE {{}}) :
             LET res == insert_articles(variant, articles, df, selectOk, failing, dbTz)
             IN  /\ articles' = res.articles
                 /\ pc' = MainAfter("insert", res.raised)
                 /\ last' = Statement("insert", res.raised, "insert_articles failed",
                                      Len(res.articles) - Len(articles))
                 /\ trace' = Append(trace,
                       [stage |-> "insert",
                        failed |-> (res.raised \/ ~CleanCall(selectOk, failing)),
                        logged |-> FALSE,
                        units |-> InsertUnits(res)])
    /\ UNCHANGED <<variant, dbTz, conns, value, df, prev, response, runs>>

\* insert_binance_data()
BinanceStage ==
    /\ pc = "binance"
    /\ \E selectOk \in BOOLEAN, insertOk \in BOOLEAN :
          \E resp \in (IF selectOk THEN PipelineKlines ELSE {NotRequested}) :
             LET res == insert_binance_data(variant, value, selectOk, resp, insertOk, dbTz)
             IN  /\ value' = res.value
                 /\ pc' = MainAfter("binance", res.raised)
                 /\ last' = Statement("binance", res.raised, "insert_binance_data failed",
                                      Cardinality(res.value) - Cardinality(value))
                 /\ trace' = Append(trace,
                       [stage |-> "binance",
                        failed |-> (res.raised \/ ~selectOk \/ resp.kind = "raise"
                                       \/ (resp.kind = "http" /\ resp.status # 200)
                                       \/ (res.submitted # <<>> /\ ~res.inserted)),
                        logged |-> FALSE,
                        units |-> BinanceUnits(resp, res)])
    /\ UNCHANGED <<variant, dbTz, conns, articles, df, prev, response, runs>>

\* print("Lambda function completed successfully!")
MainExit ==
    /\ pc = "exit"
    /\ \E printOk \in (IF variant = "lambda" THEN BOOLEAN ELSE {TRUE}) :
          /\ pc' = MainAfter("exit", ~printOk)
          /\ last' = Statement("exit", ~printOk, PrintError, 0)
    /\ UNCHANGED <<variant, dbTz, conns, articles, value, df, prev, trace, response, runs>>

\* main() has returned or raised: lambda_handler returns its result (the
\* caller of the basic main() gets the exception)
Return ==
    /\ pc \in {"returned", "raised"}
    /\ response' = IF variant = "lambda" THEN HandlerResult(pc = "raised", last.exc)
                   ELSE DirectResult(pc = "raised", last.exc)
    /\ pc' = "idle"
    /\ UNCHANGED <<variant, dbTz, conns, articles, value, df, last, prev, trace, runs>>

Next ==
    \/ Invoke
    \/ MainEnter
    \/ Provision
    \/ ScrapeStage
    \/ InsertStage
    \/ BinanceStage
    \/ MainExit
    \/ Return

Spec == Init /\ [][Next]_vars

-----------------------------------------------------------------------------
(* C1 *)

\* the rows of `table` after its first n
RowsAfter(table, n) == SubSeq(table, n + 1, Len(table))

IsPrefix(a, b) == Len(a) =< Len(b) /\ SubSeq(b, 1, Len(a)) = a

\* how many elements of `seq` equal x
CountOf(seq, x) == Cardinality({i \in 1..Len(seq) : seq[i] = x})

\* two calls in succession on the same batch, no store operation of either
\* call failing
TwoCleanCallsOnSameBatch ==
    /\ last.op = "insert_articles"
    /\ prev.op = "insert_articles"
    /\ last.batch = prev.batch
    /\ prev.clean
    /\ CleanCall(last.selectOk, last.failing)

\* C1: insert_articles run twice in succession on the same scraped records,
\* nothing failing, stores each record at most once in total: the second run
\* submits no insert and writes no row, whatever the table held before the
\* first.  From an empty table and one record, the first run writes exactly
\* that one row and the second none.
C1_DedupIdempotent ==
    TwoCleanCallsOnSameBatch =>
        LET written == RowsAfter(articles, Len(prev.before))
        IN  /\ articles = last.before
            /\ last.res.attempts = <<>>
            /\ IsPrefix(prev.before, articles)
            /\ \A i \in 1..Len(last.batch) :
                  CountOf(written, StoreArticle(last.batch[i], dbTz))
                      =< CountOf(last.batch, last.batch[i])
            /\ (prev.before = <<>> /\ Len(last.batch) = 1) =>
                  articles = <<StoreArticle(last.batch[1], dbTz)>>

\* the second of two clean calls has returned; the first found rows stored,
\* skipped a record of its batch and wrote another
C1_Witness ==
    /\ TwoCleanCallsOnSameBatch
    /\ prev.before # <<>>
    /\ Len(last.before) > Len(prev.before)
    /\ Len(last.before) < Len(prev.before) + Len(last.batch)

-----------------------------------------------------------------------------
(* C7 *)

RECURSIVE RowsOf(_, _)
\* the rows of the attempts, in order; of the accepted ones when okOnly
RowsOf(attempts, okOnly) ==
    IF attempts = <<>> THEN <<>>
    ELSE (IF okOnly /\ ~Head(attempts).ok THEN <<>> ELSE Head(attempts).rows)
             \o RowsOf(Tail(attempts), okOnly)

\* C7: the hardened insert_articles writes the new records in consecutive
\* batches of at most 10, in listing order; a rejected batch is skipped and
\* every later batch is still submitted, so the rows stored by the call are
\* exactly those of the accepted batches and the reported total is their
\* number.  In the basic insert_articles the one insert's failure leaves the
\* routine as an exception.
C7_BatchFailurePolicy ==
    (last.op = "insert_articles") =>
        LET att == last.res.attempts
            new == ArticlesList(NewArticles(ExistingKeys(last.before, dbTz), last.batch))
            written == RowsAfter(articles, Len(last.before))
            accepted == RowsOf(att, TRUE)
        IN  /\ IsPrefix(last.before, articles)
            /\ written = [i \in 1..Len(accepted) |-> StoreArticle(accepted[i], dbTz)]
            /\ variant = "lambda" =>
                  /\ ~last.res.raised
                  /\ \A k \in 1..Len(att) :
                        /\ Len(att[k].rows) >= 1
                        /\ Len(att[k].rows) =< 10
                        /\ k < Len(att) => Len(att[k].rows) = 10
                        /\ att[k].ok <=> k \notin last.failing
                  /\ (last.selectOk /\ last.batch # <<>>) => RowsOf(att, FALSE) = new
                  /\ att # <<>> => last.res.reported = Len(written)
            /\ variant = "basic" =>
                  /\ Len(att) =< 1
                  /\ (last.selectOk /\ last.batch # <<>>) => RowsOf(att, FALSE) = new
                  /\ \A k \in 1..Len(att) :
                        /\ att[k].ok <=> k \notin last.failing
                        /\ ~att[k].ok => (last.res.raised /\ articles = last.before)
                        /\ att[k].ok => ~last.res.raised

\* a hardened call of three batches, the second rejected: the 10 rows of the
\* first and the one row of the third are stored
C7_Witness ==
    /\ last.op = "insert_articles"
    /\ variant = "lambda"
    /\ Len(last.res.attempts) = 3
    /\ last.res.attempts[1].ok
    /\ ~last.res.attempts[2].ok
    /\ last.res.attempts[3].ok
    /\ Len(articles) = Len(last.before) + 11
    /\ last.res.reported = 11

-----------------------------------------------------------------------------
(* C2 *)

\* the candles of the response's array
Fetched(resp) ==
    IF resp.kind = "http" /\ resp.status = 200 /\ resp.body.json = "array"
    THEN {resp.body.rows[i] : i \in 1..Len(resp.body.rows)}
    ELSE {}

\* the second a fetched candle opens at
OpenSecond(c) == c.open_time \div 1000

\* the candle opens strictly after every row stored when the call started
AfterStoredMax(c, before) == \A r \in before : OpenSecond(c) > r.open_time.sec

\* the call stored a row for the candle
Written(c, before, after) ==
    \E r \in after \ before : r.open_time.sec = OpenSecond(c) /\ r.close = c.close

StoreAccepts(resp, before, insertOk) ==
    /\ insertOk
    /\ \A i, j \in 1..Len(resp.body.rows) :
          (/\ AfterStoredMax(resp.body.rows[i], before)
           /\ AfterStoredMax(resp.body.rows[j], before)
           /\ OpenSecond(resp.body.rows[i]) = OpenSecond(resp.body.rows[j])) => i = j

-----------------------------------------------------------------------------
(* C8 *)

\* the request was made and nothing of its answer is to be inserted: the
\* status is not 200, the array is empty, or the filter against the stored
\* rows leaves no candle
NothingToInsert(v, resp, before) ==
    /\ resp.kind = "http"
    /\ \/ resp.status # 200
       \/ /\ resp.body.json = "array"
          /\ \A c \in Fetched(resp) :
                IF v = "lambda" THEN ~AfterStoredMax(c, before)
                ELSE \E r \in before : r.open_time.sec = OpenSecond(c)

\* C8: insert_binance_data leaves the value table as it was and raises no
\* error whenever the response is not a 200, the array is empty or no fetched
\* candle is left after the filter against the stored rows.
C8_NoWriteNoError ==
    (/\ last.op = "insert_binance_data"
     /\ last.selectOk
     /\ NothingToInsert(variant, last.resp, last.before)) =>
        /\ value = last.before
        /\ ~last.res.raised

-----------------------------------------------------------------------------
(* C3 *)

\* a stage of the running invocation met a failure
SomeStageFailed == \E i \in 1..Len(trace) : trace[i].failed

\* C3 as stated: lambda_handler never lets an exception through; it returns
\* 200 with the success message when main() returned and 500 with the
\* exception's text when main() raised; and every failure of provisioning, of
\* the article scrape or insert, or of the market-data fetch or insert is
\* reported as the 500 outcome.
C3_EveryFailureIs500 ==
    (variant = "lambda" /\ response # NoResponse) =>
        /\ response.kind = "http"
        /\ last.raised => (response.statusCode = 500 /\ response.body.exc = last.exc)
        /\ ~last.raised => (response.statusCode = 200 /\ response.body.text = "succeeded")
        /\ SomeStageFailed => response.statusCode = 500

\* C3, amended: lambda_handler never lets an exception through; it returns
\* 200 with the success message when main() returned and 500 with the
\* exception's text when main() raised.  A failure of provisioning, of the
\* article scrape or insert, or of the market-data fetch or insert is caught
\* and logged inside its routine: it does not make main() raise, the later
\* statements still run, and the outcome is the one main()'s own statements
\* give (200 when they complete).
C3_HandlerReportsMainOutcome ==
    (variant = "lambda" /\ response # NoResponse) =>
        /\ response.kind = "http"
        /\ last.raised =>
              (/\ response.statusCode = 500
               /\ response.body.text = "error"
               /\ response.body.exc = last.exc)
        /\ ~last.raised => (response.statusCode = 200 /\ response.body.text = "succeeded")
        /\ last.raised => last.op \in {"enter", "exit"}
        /\ (SomeStageFailed /\ last.op = "exit" /\ ~last.raised) => response.statusCode = 200
        /\ last.op = "exit" => Len(trace) = Len(Stages)

\* lambda_handler has returned 200 for an invocation in which provisioning,
\* the scrape, the article insert and the market-data stage all failed
C3_Witness ==
    /\ variant = "lambda"
    /\ response # NoResponse
    /\ response.statusCode = 200
    /\ Len(trace) = Len(Stages)
    /\ \A i \in 1..Len(trace) : trace[i].failed

-----------------------------------------------------------------------------
(* C4 *)

\* C4: both tables are append-only: in every step of the job each row of the
\* articles table stays where it is, unchanged, and each row of the value
\* table stays in it, unchanged; rows are only added.
C4_AppendOnly ==
    [][/\ IsPrefix(articles, articles')
       /\ value \subseteq value']_vars

\* the market-data stage of an invocation has just added rows to a value
\* table that held rows already, next to an articles table that the article
\* insert added to before
C4_Witness ==
    /\ runs = MaxInvocations
    /\ last.op = "binance"
    /\ last.wrote > 0
    /\ Cardinality(value) > last.wrote
    /\ Len(articles) > 1

-----------------------------------------------------------------------------
(* C9 *)

\* the position of a stage in the order of main()
StageIndex(stage) == CHOOSE i \in 1..Len(Stages) : Stages[i] = stage

\* C9: in one invocation of main() the stages run strictly in the order
\* provisioning, article scrape, article insert, market data: a stage starts
\* only when all the stages before it, and no other, have finished.
\* Provisioning comes first in every invocation; its failure is logged and the
\* scrape stage follows all the same.
C9_StageOrder ==
    /\ Len(trace) =< Len(Stages)
    /\ \A i \in 1..Len(trace) : trace[i].stage = Stages[i]
    /\ pc \in {"provision", "scrape", "insert", "binance"} => Len(trace) = StageIndex(pc) - 1
    /\ pc \in {"idle", "enter"} => (trace = <<>> \/ response # NoResponse)
    /\ Len(trace) = 1 =>
          /\ pc = "scrape"
          /\ trace[1].failed => trace[1].logged
    /\ pc = "exit" => Len(trace) = Len(Stages)

\* all four stages of an invocation have run, after a provisioning that failed
C9_Witness ==
    /\ pc = "exit"
    /\ variant = "lambda"
    /\ Len(trace) = Len(Stages)
    /\ trace[1].failed
    /\ trace[1].logged

-----------------------------------------------------------------------------
(* C5 *)

\* the articles of the candidates whose pass ended in an append, in order
RECURSIVE AppendedOf(_)
AppendedOf(cands) ==
    IF cands = <<>> THEN <<>>
    ELSE LET o == ProcessCandidate(Head(cands))
         IN  (IF o.kind = "ok" THEN <<o.article>> ELSE <<>>) \o AppendedOf(Tail(cands))

\* C5: a candidate's failure (no link, a detail page that is not a 200, an
\* exception while the page is fetched or read) never ends the scrape: once
\* the listing is read, every candidate the loop iterates over (all of them
\* in the basic variant, the first ArticleLimit in the hardened one) gets its
\* pass whatever became of the candidates before it, the returned batch is
\* exactly the records of the candidates whose pass succeeded, in listing
\* order, and no exception leaves the routine.
C5_FailureDoesNotAbort ==
    (last.op = "scrape" /\ last.res.listed) =>
        LET cands == LoopCandidates(variant, last.listing.body)
        IN  /\ Len(last.res.outcomes) = Len(cands)
            /\ \A i \in 1..Len(cands) : last.res.outcomes[i] = ProcessCandidate(cands[i])
            /\ last.res.results = AppendedOf(cands)
            /\ df = last.res.results
            /\ ~last.res.raised

\* a scrape in which a candidate raised, a later one was skipped and a still
\* later one was appended
C5_Witness ==
    /\ last.op = "scrape"
    /\ last.res.listed
    /\ \E i, j, k \in 1..Len(last.res.outcomes) :
          /\ i < j /\ j < k
          /\ last.res.outcomes[i].kind = "error"
          /\ last.res.outcomes[j].kind = "skip"
          /\ last.res.outcomes[k].kind = "ok"
          /\ \E n \in 1..Len(df) : df[n] = last.res.outcomes[k].article

-----------------------------------------------------------------------------
(* C6 *)

\* the candidates of the loop whose detail page is a 200 with a date text
\* that is no date
HasUnparsableDate(cand) ==
    /\ ResolveLink(cand.href).py # "None"
    /\ cand.resp.kind = "http"
    /\ cand.resp.status = 200
    /\ DateTruthy(cand.resp.body.date)
    /\ IsNull(to_datetime(cand.resp.body.date, TRUE))

\* C6: a detail page whose publish-date text cannot be parsed still gives a
\* record, with datetime None: the article is not dropped and no exception
\* leaves the scraper.
C6_UnparsableDateKept ==
    (last.op = "scrape" /\ last.res.listed) =>
        LET cands == LoopCandidates(variant, last.listing.body)
        IN  /\ ~last.res.raised
            /\ \A i \in 1..Len(cands) :
                  HasUnparsableDate(cands[i]) =>
                      /\ last.res.outcomes[i].kind = "ok"
                      /\ last.res.outcomes[i].article.datetime = None
                      /\ \E n \in 1..Len(df) : df[n] = last.res.outcomes[i].article

-----------------------------------------------------------------------------
(* C10 *)

\* C10: for every polarity p in [-1, 1] the label of a text scored p is
\* positive iff p > 0.1, negative iff p < -0.1 and neutral otherwise; 0.1 and
\* -0.1 are neutral, 0.1001 is positive and -0.1001 is negative.  (Polarities
\* are in units of 1/10000.)
C10_SentimentThresholds ==
    (last.op = "get_sentiment_label" /\ IsStr(last.text)) =>
        LET p == last.text.polarity
        IN  /\ last.label \in {"positive", "negative", "neutral"}
            /\ last.label = "positive" <=> p > 1000
            /\ last.label = "negative" <=> p < 0 - 1000
            /\ last.label = "neutral" <=> (p >= 0 - 1000 /\ p =< 1000)
            /\ p = 1000 => last.label = "neutral"
            /\ p = 1001 => last.label = "positive"
            /\ p = 0 - 1000 => last.label = "neutral"
            /\ p = 0 - 1001 => last.label = "negative"

\* the text scored exactly 0.1 has been labelled, neutral
C10_Witness ==
    /\ last.op = "get_sentiment_label"
    /\ IsStr(last.text)
    /\ last.text.polarity = 1000
    /\ last.label = "neutral"

-----------------------------------------------------------------------------
(* C11 *)

\* a text with nothing to score: a value that is no str, the empty str, or
\* the sentinel 'N/A' the scraper puts where the body selectors found nothing
Unscoreable(text) == ~IsStr(text) \/ text.s = <<>> \/ text.s = NA

\* C11: get_sentiment_label returns "unknown" for an empty or unscoreable
\* text (the sentinel 'N/A' included) and for any failure of the polarity
\* computation; it never returns positive, neutral or negative for such an
\* input.
C11_UnknownForUnscoreable ==
    (last.op = "get_sentiment_label" /\ Unscoreable(last.text)) =>
        last.label = "unknown"

-----------------------------------------------------------------------------
(* The scraper on a listing of one candidate: every href, every author.    *)

HrefChars == {"h", "t", "p", "/"}
AuthorChars == {"B", "b", "y", " ", "J"}

NewsX == <<"/", "n", "e", "w", "s", "/", "x">>

\* what a[href] can be: no <a> or no href attribute (None), or any text
Hrefs ==
    {None, Str(NewsX)} \cup {Str(h) : h \in SeqsUpTo(HrefChars, MaxHref)}

\* what the author tag can hold: no tag (None), or any text
AuthorTexts == {None} \cup {Str(a) : a \in SeqsUpTo(AuthorChars, MaxAuthor)}

\* The candidates: every href with a detail request that raises, is a 404 or
\* is a 200, and every author text on a page that is fetched.
DetailCandidates ==
    {Candidate(h, r) : h \in Hrefs,
                       r \in {RaisesResponse, HttpResponse(404, PageFull),
                              HttpResponse(200, PageFull)}}
        \cup {Candidate(Str(NewsX), HttpResponse(200, [PageFull EXCEPT !.author = a])) :
                 a \in AuthorTexts}

InitDetail ==
    /\ variant \in Variants
    /\ dbTz = 0
    /\ articles = <<>>
    /\ value = {}
    /\ pc = "call"
    /\ df = <<>>
    /\ last \in {[op |-> "listing", listing |-> HttpResponse(200, <<c>>)] :
                    c \in DetailCandidates}
    /\ prev = NoCall
    /\ trace = <<>>
    /\ response = NoResponse
    /\ runs = 0
    /\ conns = 0

NextDetail == CallScrape

SpecDetail == InitDetail /\ [][NextDetail]_vars

-----------------------------------------------------------------------------
(* C12 *)

\* C12: for each listing candidate, an href that begins with "http" is the
\* article link unchanged; any other href h that is there (a text of at least
\* one character) gives the link "https://u.today" followed by h, so
\* "/news/x" gives "https://u.today/news/x"; a candidate without an href (no
\* title div, no <a>, no href attribute, or an href of no characters, which
\* the code's `if href` takes for a missing one) is skipped without error: no
\* record and no detail-page request.
C12_LinkResolution ==
    (last.op = "scrape" /\ last.res.listed) =>
        LET cands == LoopCandidates(variant, last.listing.body)
        IN  \A i \in 1..Len(cands) :
                LET href == cands[i].href
                    o == last.res.outcomes[i]
                    link == IF Len(href.s) >= 4 /\ SubSeq(href.s, 1, 4) = <<"h", "t", "t", "p">>
                            THEN href.s
                            ELSE <<"h", "t", "t", "p", "s", ":", "/", "/",
                                   "u", ".", "t", "o", "d", "a", "y">> \o href.s
                IN  IF href.py = "None" \/ href.s = <<>>
                    THEN /\ o.kind = "skip"
                         /\ o.requested = None
                         /\ last.res.results = <<>>
                    ELSE /\ o.requested = Str(link)
                         /\ o.kind = "ok" => o.article.link = Str(link)
                         /\ href.s = NewsX =>
                               o.requested.s = <<"h", "t", "t", "p", "s", ":", "/", "/",
                                                 "u", ".", "t", "o", "d", "a", "y",
                                                 "/", "n", "e", "w", "s", "/", "x">>

\* the record of a candidate with a relative href that itself holds the
\* letters "http" has been returned, its link the origin followed by the href
C12_Witness ==
    /\ last.op = "scrape"
    /\ Len(df) = 1
    /\ last.listing.body[1].href = Str(<<"/", "h", "t", "t", "p">>)
    /\ df[1].link = Str(Origin \o <<"/", "h", "t", "t", "p">>)

-----------------------------------------------------------------------------
(* C13 *)

\* the name carries the prefix: the word "By" (in either case) followed by a
\* space or by nothing
CarriesByPrefix(name) ==
    /\ Len(name) >= 2
    /\ Lower(SubSeq(name, 1, 2)) = <<"b", "y">>
    /\ (Len(name) = 2 \/ name[3] = " ")

\* the text of the candidate's author tag as get_text(strip=True) gives it
AuthorNameOf(cand) ==
    IF cand.resp.body.author.py = "None" THEN NA ELSE Strip(cand.resp.body.author.s)

\* C13: a leading "By" prefix is removed from an author name and the rest
\* trimmed ("By J" becomes "J"); every name that does not carry the prefix,
\* one that merely begins with the letters b-y ("ByJ") included, is stored
\* unchanged.
C13_ByPrefixOnly ==
    (last.op = "scrape" /\ last.res.listed) =>
        LET cands == LoopCandidates(variant, last.listing.body)
        IN  \A i \in 1..Len(cands) :
                last.res.outcomes[i].kind = "ok" =>
                    LET name == AuthorNameOf(cands[i])
                        stored == last.res.outcomes[i].article.author
                    IN  IF CarriesByPrefix(name)
                        THEN stored = Str(Strip(SubSeq(name, 3, Len(name))))
                        ELSE stored = Str(name)

-----------------------------------------------------------------------------
(* C14 *)

\* the units of work the running invocation has attempted so far, in order
RECURSIVE UnitsOf(_)
UnitsOf(events) ==
    IF events = <<>> THEN <<>> ELSE Head(events).units \o UnitsOf(Tail(events))

\* C14: in one invocation of main() every unit of work (the listing-page
\* request, each detail-page request, the market-data request, each article
\* batch insert, the candle insert) is attempted at most once: no unit occurs
\* twice among the attempts of the invocation, so none is attempted again
\* after it failed.
C14_NoRetry ==
    LET units == UnitsOf(trace)
    IN  \A i, j \in 1..Len(units) :
            (units[i].kind = units[j].kind /\ units[i].n = units[j].n) => i = j

\* an invocation has run all its stages with a detail request, an article
\* insert and the market-data request failing, each attempted once
C14_Witness ==
    /\ pc = "exit"
    /\ \E i \in 1..Len(UnitsOf(trace)) :
          UnitsOf(trace)[i].kind = "detail" /\ ~UnitsOf(trace)[i].ok
    /\ \E i \in 1..Len(UnitsOf(trace)) :
          UnitsOf(trace)[i].kind = "batch" /\ ~UnitsOf(trace)[i].ok
    /\ \E i \in 1..Len(UnitsOf(trace)) :
          UnitsOf(trace)[i].kind = "klines" /\ ~UnitsOf(trace)[i].ok

-----------------------------------------------------------------------------
(* C15 *)

\* C15: the connection create_tables_if_not_exists opens is released on
\* every exit path: once the routine has returned, whether table creation
\* succeeded or raised at connect, execute or commit, no connection opened by
\* it remains open.
C15_ConnectionReleased == conns = 0

-----------------------------------------------------------------------------
(* The dashboard: src/Frontend/streamlit.py.                               *)
(*                                                                         *)
(* One run of the script is two steps: Load fetches the value table and    *)
(* sorts it, Render reads the buttons and the clock, cuts the window and   *)
(* filters the articles.  df holds the open_time column of df_value_full,  *)
(* in seconds; every instant of the dashboard's tables is on CandleDate.   *)
(* All times are compared as instants: the conversion to Europe/Berlin     *)
(* changes how a time is shown, not when it is.                            *)

\* df_value_full.tail(1000)
DefaultPoints == 1000

\* pd.Timedelta(days=1), in seconds
SecondsPerDay == 86400

\* the button that returned True in this run ("none": no button); a click
\* starts one run of the script, in which that button alone is True
Buttons == {"none", "1d", "2d", "3d", "7d", "Max"}

\* df_value_full: the open times of the fetched rows, each parsed by
\* pd.to_datetime(open_time, errors="coerce", utc=True), sorted ascending
SortedOpenTimes(table, tz) ==
    LET times == {to_datetime_utc(SelectTimestamptz(r.open_time, tz)).sec : r \in table}
        lo == CHOOSE t \in times : \A u \in times : t =< u
        hi == CHOOSE t \in times : \A u \in times : u =< t
    IN  IF table = {} THEN <<>>
        ELSE SelectSeq([i \in 1..(hi - lo + 1) |-> lo + i - 1], LAMBDA t : t \in times)

\* the days of a range button
RangeDays(button) ==
    CASE button = "1d" -> 1 [] button = "2d" -> 2 [] button = "3d" -> 3 [] button = "7d" -> 7

\* a cut that leaves out the candle that opens at the cutoff
TimeFilterExclusive(full, button, now) ==
    LET recent == IF Len(full) > DefaultPoints
                  THEN SubSeq(full, Len(full) - DefaultPoints + 1, Len(full)) ELSE full
    IN  IF button = "none"
        THEN [window |-> "default", df_value |-> recent,
              article_start_time |-> recent[1], article_end_time |-> recent[Len(recent)]]
        ELSE IF button = "Max"
        THEN [window |-> "Max", df_value |-> full,
              article_start_time |-> full[1], article_end_time |-> full[Len(full)]]
        ELSE LET cutoff_time == now - RangeDays(button) * SecondsPerDay
             IN  [window |-> button,
                  df_value |-> SelectSeq(full, LAMBDA t : t > cutoff_time),
                  article_start_time |-> cutoff_time, article_end_time |-> now]

\* The time filtering logic: the window in effect, the candles shown and the
\* bounds of the article window.  min() and max() of a sorted column are its
\* first and last element.
TimeFilter(full, button, now) ==
    LET recent == IF Len(full) > DefaultPoints
                  THEN SubSeq(full, Len(full) - DefaultPoints + 1, Len(full)) ELSE full
    IN  IF button = "none"
        THEN [window |-> "default", df_value |-> recent,
              article_start_time |-> recent[1], article_end_time |-> recent[Len(recent)]]
        ELSE IF button = "Max"
        THEN [window |-> "Max", df_value |-> full,
              article_start_time |-> full[1], article_end_time |-> full[Len(full)]]
        ELSE LET cutoff_time == now - RangeDays(button) * SecondsPerDay
             IN  [window |-> button,
                  df_value |-> SelectSeq(full, LAMBDA t : t >= cutoff_time),
                  article_start_time |-> cutoff_time, article_end_time |-> now]

\* robust_parse_with_timezone(row["datetime"]): the instant, NaT for NULL
robust_parse_with_timezone(row, tz) ==
    IF row.datetime.py = "None" THEN NaT
    ELSE to_datetime_utc(SelectTimestamptz(row.datetime, tz))

\* filtered_articles: the rows whose parsed time is in the window; a
\* comparison with NaT is False
FilteredArticles(rows, start, end, tz) ==
    SelectSeq(rows, LAMBDA a :
        LET dt == robust_parse_with_timezone(a, tz)
        IN  dt.py # "NaT" /\ dt.sec >= start /\ dt.sec =< end)

\* (filtered_articles["sentiment"] == label).sum()
SentimentCount(rows, label) == Len(SelectSeq(rows, LAMBDA a : a.sentiment = label))

\* What one run shows.  Nothing below the buttons is shown when the cut
\* leaves no candle.
RenderView(full, rows, button, now, tz) ==
    LET f == TimeFilter(full, button, now)
        filtered == FilteredArticles(rows, f.article_start_time, f.article_end_time, tz)
    IN  [op |-> "render", button |-> button, now |-> now, window |-> f.window,
         shown |-> f.df_value # <<>>, df_value |-> f.df_value,
         article_start_time |-> f.article_start_time,
         article_end_time |-> f.article_end_time,
         filtered_articles |-> filtered, total |-> Len(filtered),
         positive_count |-> SentimentCount(filtered, "positive"),
         neutral_count |-> SentimentCount(filtered, "neutral"),
         negative_count |-> SentimentCount(filtered, "negative")]

\* The value tables the dashboard finds: a candle every second from second 1.
DashboardCandles ==
    {{[open_time |-> [py |-> "instant", date |-> CandleDate, sec |-> k], close |-> 1] :
         k \in 1..n} : n \in (0..MaxFew) \cup (DefaultPoints..(DefaultPoints + MaxOver))}

\* An article row dated `sec` seconds before the last of n candles (not
\* dated when sec is NothingReported), with its stored label.
DashboardArticle(n, sec, label) ==
    [StoreArticle(ArtFull, 0) EXCEPT
        !.datetime = IF sec = NothingReported THEN None
                     ELSE [py |-> "instant", date |-> CandleDate, sec |-> n - sec],
        !.sentiment = label]

\* The articles tables the dashboard finds next to n candles.
DashboardArticles(n) ==
    {<<>>,
     <<DashboardArticle(n, 1, "negative"), DashboardArticle(n, 0, "positive")>>,
     <<DashboardArticle(n, DefaultPoints, "neutral"), DashboardArticle(n, 2, "neutral"),
       DashboardArticle(n, NothingReported, "positive"), DashboardArticle(n, 1, "negative"),
       DashboardArticle(n, 0, "unknown"), DashboardArticle(n, 0 - 2, "positive")>>}

\* The clock of a run: the time of the last candle or later, up to seven
\* days later.
Clocks(full) ==
    {full[Len(full)] + d * SecondsPerDay - k :
        d \in {0, 1, 2, 3, 7}, k \in {0, 1}} \ {full[Len(full)] - 1}

InitDashboard ==
    /\ variant = "lambda"
    /\ dbTz \in DbTimeZones
    /\ value \in DashboardCandles
    /\ articles \in DashboardArticles(Cardinality(value))
    /\ pc = "load"
    /\ df = <<>>
    /\ last = NoCall
    /\ prev = NoCall
    /\ trace = <<>>
    /\ response = NoResponse
    /\ runs = 0
    /\ conns = 0

\* the top of the script: fetch_value_data(), parse, sort
Load ==
    /\ pc = "load"
    /\ df' = SortedOpenTimes(value, dbTz)
    /\ last' = [op |-> "load", found |-> value # {}]
    /\ pc' = IF value # {} THEN "render" ELSE "load"
    /\ UNCHANGED <<variant, dbTz, conns, articles, value, prev, trace, response, runs>>

\* the rest of the script; the next run starts at the top
Render ==
    /\ pc = "render"
    /\ \E button \in Buttons, now \in Clocks(df) :
          last' = RenderView(df, articles, button, now, dbTz)
    /\ pc' = "load"
    /\ UNCHANGED <<variant, dbTz, conns, articles, value, df, prev, trace, response, runs>>

NextDashboard == Load \/ Render

SpecDashboard == InitDashboard /\ [][NextDashboard]_vars

-----------------------------------------------------------------------------
(* C16 *)

\* the open times of the stored candles, in seconds
StoredOpenTimes == {r.open_time.sec : r \in value}

\* the article is dated, inside [start, end]
DatedInside(a, start, end) ==
    /\ a.datetime.py # "None"
    /\ a.datetime.sec >= start
    /\ a.datetime.sec =< end

\* C16: on every render exactly one of the windows 1d, 2d, 3d, 7d, Max and
\* default (the most recent 1000 candles) is in effect: the one of the button
\* clicked, the default without a click.  The article window [start, end]
\* bounds the period of the candles shown: every candle shown opens inside
\* it and every stored candle that opens inside it is shown; a range window
\* of k days is [now - k days, now], the Max and default windows run from the
\* first to the last candle shown.  The sentiment split counts exactly the
\* articles whose parsed timestamp lies inside the window.
C16_WindowsInSync ==
    (last.op = "render" /\ last.shown) =>
        LET start == last.article_start_time
            end == last.article_end_time
            shownTimes == {last.df_value[i] : i \in 1..Len(last.df_value)}
            inside == SelectSeq(articles, LAMBDA a : DatedInside(a, start, end))
        IN  /\ last.window \in {"1d", "2d", "3d", "7d", "Max", "default"}
            /\ last.window = (IF last.button = "none" THEN "default" ELSE last.button)
            /\ shownTimes = {t \in StoredOpenTimes : t >= start /\ t =< end}
            /\ Len(last.df_value) = Cardinality(shownTimes)
            /\ last.window = "default" =>
                  /\ Cardinality(shownTimes) =
                        (IF Cardinality(value) > 1000 THEN 1000 ELSE Cardinality(value))
                  /\ \A t \in StoredOpenTimes \ shownTimes : \A u \in shownTimes : t < u
                  /\ start \in shownTimes /\ end \in shownTimes
            /\ last.window = "Max" =>
                  /\ shownTimes = StoredOpenTimes
                  /\ start \in shownTimes /\ end \in shownTimes
            /\ last.window = "1d" => (start = last.now - 86400 /\ end = last.now)
            /\ last.window = "2d" => (start = last.now - 2 * 86400 /\ end = last.now)
            /\ last.window = "3d" => (start = last.now - 3 * 86400 /\ end = last.now)
            /\ last.window = "7d" => (start = last.now - 7 * 86400 /\ end = last.now)
            /\ last.filtered_articles = inside
            /\ last.total = Len(inside)
            /\ last.positive_count =
                  Cardinality({i \in 1..Len(inside) : inside[i].sentiment = "positive"})
            /\ last.neutral_count =
                  Cardinality({i \in 1..Len(inside) : inside[i].sentiment = "neutral"})
            /\ last.negative_count =
                  Cardinality({i \in 1..Len(inside) : inside[i].sentiment = "negative"})

\* the 1d window of a run a day after the last candles: a stored candle opens
\* exactly at the cutoff and is shown, an older one is not, and of the dated
\* articles some are inside the window and some are not
C16_Witness ==
    /\ last.op = "render"
    /\ last.shown
    /\ last.window = "1d"
    /\ last.df_value[1] = last.article_start_time
    /\ Len(last.df_value) < Cardinality(value)
    /\ last.total > 0
    /\ last.total < Len(articles) - 1

-----------------------------------------------------------------------------
(* C17 *)

\* the normalized (title, datetime) key of the i-th stored row, as
\* insert_articles computes it from what a select returns
StoredKey(i) ==
    <<norm_title(articles[i].title),
      norm_dt(SelectTimestamptz(articles[i].datetime, dbTz))>>

\* C17: starting from an articles table in which no two rows share a
\* normalized key, after any sequence of insert_articles runs on any scraped
\* batches (a batch that holds the same article twice and articles without a
\* datetime included) no two stored rows share a normalized key.
C17_KeysUnique ==
    \A i, j \in 1..Len(articles) : StoredKey(i) = StoredKey(j) => i = j

-----------------------------------------------------------------------------
(* C18 *)

\* the open_time a submitted record is stored under
SubmittedKey(rec) == StoreCandle(rec, dbTz).open_time

\* C18: after any sequence of insert_binance_data runs against any upstream
\* responses no two rows of the value table share an open_time, and the
\* routine never submits an insert that holds an open_time already stored or
\* the same open_time twice.
C18_CandleKey ==
    /\ \A r, q \in value : r.open_time = q.open_time => r = q
    /\ last.op = "insert_binance_data" =>
          LET sub == last.res.submitted
          IN  /\ \A i \in 1..Len(sub) : SubmittedKey(sub[i]) \notin OpenTimes(last.before)
              /\ \A i, j \in 1..Len(sub) :
                    SubmittedKey(sub[i]) = SubmittedKey(sub[j]) => i = j

-----------------------------------------------------------------------------
(* C19 *)

\* the event of the stage in the running invocation's trace
StageFailed(stage) ==
    \E i \in 1..Len(trace) : trace[i].stage = stage /\ trace[i].failed

\* C19: in the hardened variant every exception raised inside
\* scrape_articles_requests, insert_articles or insert_binance_data is caught
\* inside that routine: none of the three calls raises into main(), so once
\* the scrape has run main() goes on to the article insert and from there to
\* the market-data stage whatever failed, main() completes (its own
\* statements permitting) and lambda_handler then returns statusCode 200.
C19_StageFailuresIsolated ==
    variant = "lambda" =>
        /\ last.op \in {"scrape", "insert", "binance"} => ~last.raised
        /\ last.op = "scrape" => pc = "insert"
        /\ last.op = "insert" => pc = "binance"
        /\ last.op = "binance" => pc = "exit"
        /\ pc = "raised" => last.op \in {"enter", "exit"}
        /\ (last.op = "exit" /\ ~last.raised /\ response # NoResponse) =>
              /\ Len(trace) = 4
              /\ trace[4].stage = "binance"
              /\ response.kind = "http"
              /\ response.statusCode = 200

\* lambda_handler has returned 200 for an invocation in which a detail
\* request raised, the article insert was rejected and the market-data stage
\* ran all the same and stored candles
C19_Witness ==
    /\ variant = "lambda"
    /\ response # NoResponse
    /\ response.statusCode = 200
    /\ StageFailed("scrape")
    /\ StageFailed("insert")
    /\ ~StageFailed("binance")
    /\ \E i \in 1..Len(trace) :
          \E j \in 1..Len(trace[i].units) :
              trace[i].units[j].kind = "candles" /\ trace[i].units[j].ok
    /\ \E i \in 1..Len(trace) :
          \E j \in 1..Len(trace[i].units) :
              trace[i].units[j].kind = "batch" /\ ~trace[i].units[j].ok

====
